---- MODULE Spec2Model ----
(***************************************************************************)
(* CapnWebHandler.handle_batch_request of minimal_server.py: the handler   *)
(* of POST /rpc/batch.  Texts (request bodies, lines, response bodies) are *)
(* sequences of lexemes; json.loads, str.split, str.strip, the f-string    *)
(* formatting of the add result and json.dumps are operators on them.      *)
(***************************************************************************)
EXTENDS Integers, Sequences, FiniteSets, TLC

(***************************************************************************)
(* The state.                                                              *)
(*   pc        idle | loop | legacy | done | raised                        *)
(*   body      the decoded request body (line 47)                          *)
(*   lines, i  the for loop of line 58 (i counted from 1)                  *)
(*   response, headers, writes   what was sent: the body text, the header  *)
(*             names, the number of wfile.write calls                      *)
(*   log       the logger calls that tell the path taken                   *)
(*   served    exchanges a client keeps from earlier requests              *)
(***************************************************************************)
VARIABLES pc, body, lines, i, response, headers, writes, log, served

(***************************************************************************)
(* The state of identify-uncovered-code.py.                                *)
(*   apc       idle | scan | stored: the position in analyze_module        *)
(*   content   the text of the Rust file, a sequence of characters         *)
(*   rs_lines, ln   the for loop of line 81 (ln is the 1-based i)          *)
(*   in_test_module, current_function, function_complexity,                *)
(*   uncovered_items   the locals of analyze_module (lines 61-79)          *)
(*   stats, uncovered   self.stats, self.uncovered                         *)
(*   mpc       idle | summed | reported | exit: the position in main       *)
(*   summary   json_data['summary'], the statistics main sums              *)
(*   total_gaps, message, status   what main computes, prints, returns     *)
(***************************************************************************)
VARIABLES apc, content, rs_lines, ln, in_test_module, current_function,
          function_complexity, uncovered_items, stats, uncovered,
          mpc, summary, total_gaps, message, status
analyzer == <<apc, content, rs_lines, ln, in_test_module, current_function,
              function_complexity, uncovered_items, stats, uncovered>>
program == <<mpc, summary, total_gaps, message, status>>
vars == <<pc, body, lines, i, response, headers, writes, log, served, analyzer, program>>

(***************************************************************************)
(* Lexemes and JSON values.  A lexeme is [t |-> kind, v |-> payload]; the   *)
(* atoms "num", "str", "bool", "null" are at once lexemes and the values    *)
(* json.loads gives for them.  "bare" is text that is no JSON token (a     *)
(* word such as not-json, Python's True, a single-quoted 'a', the unquoted  *)
(* characters of a str).                                                    *)
(***************************************************************************)
P(c) == [t |-> c, v |-> 0]
LB == P("[")
RB == P("]")
LC == P("{")
RC == P("}")
COMMA == P(",")
COLON == P(":")
NL == P("nl")
WS == P("ws")
Num(n) == [t |-> "num", v |-> n]
Str(s) == [t |-> "str", v |-> s]
Bool(b) == [t |-> "bool", v |-> b]
Null == [t |-> "null", v |-> 0]
Bare(s) == [t |-> "bare", v |-> s]
List(xs) == [t |-> "list", v |-> xs]
Obj(kvs) == [t |-> "obj", v |-> kvs]
Atoms == {"num", "str", "bool", "null"}

(***************************************************************************)
(* json.loads: a recursive-descent parse of the lexemes, whitespace        *)
(* dropped; [ok |-> FALSE] stands for json.JSONDecodeError.                 *)
(***************************************************************************)
ParseFail == [ok |-> FALSE, v |-> Null, next |-> 0]
ParseOk(val, n) == [ok |-> TRUE, v |-> val, next |-> n]

RECURSIVE ParseValue(_, _)
RECURSIVE ParseElems(_, _, _)
RECURSIVE ParseMembers(_, _, _)
ParseValue(toks, p) ==
    IF p > Len(toks) THEN ParseFail
    ELSE IF toks[p].t \in Atoms THEN ParseOk(toks[p], p + 1)
    ELSE IF toks[p].t = "[" THEN
        IF p + 1 <= Len(toks) /\ toks[p + 1].t = "]"
        THEN ParseOk(List(<<>>), p + 2)
        ELSE ParseElems(toks, p + 1, <<>>)
    ELSE IF toks[p].t = "{" THEN
        IF p + 1 <= Len(toks) /\ toks[p + 1].t = "}"
        THEN ParseOk(Obj(<<>>), p + 2)
        ELSE ParseMembers(toks, p + 1, <<>>)
    ELSE ParseFail

ParseElems(toks, p, acc) ==
    LET r == ParseValue(toks, p) IN
    IF ~r.ok \/ r.next > Len(toks) THEN ParseFail
    ELSE IF toks[r.next].t = "," THEN ParseElems(toks, r.next + 1, Append(acc, r.v))
    ELSE IF toks[r.next].t = "]" THEN ParseOk(List(Append(acc, r.v)), r.next + 1)
    ELSE ParseFail

ParseMembers(toks, p, acc) ==
    IF p + 1 > Len(toks) \/ toks[p].t # "str" \/ toks[p + 1].t # ":" THEN ParseFail
    ELSE LET r == ParseValue(toks, p + 2) IN
         IF ~r.ok \/ r.next > Len(toks) THEN ParseFail
         ELSE IF toks[r.next].t = ","
              THEN ParseMembers(toks, r.next + 1, Append(acc, <<toks[p].v, r.v>>))
         ELSE IF toks[r.next].t = "}"
              THEN ParseOk(Obj(Append(acc, <<toks[p].v, r.v>>)), r.next + 1)
         ELSE ParseFail

NotWs(tk) == tk.t \notin {"ws", "nl"}
json_loads(text) ==
    LET toks == SelectSeq(text, NotWs)
        r == ParseValue(toks, 1)
    IN IF r.ok /\ r.next = Len(toks) + 1
       THEN [ok |-> TRUE, v |-> r.v]
       ELSE [ok |-> FALSE, v |-> Null]

(***************************************************************************)
(* json.dumps (separators ", " and ": ").                                  *)
(***************************************************************************)
RECURSIVE json_dumps(_)
RECURSIVE DumpItems(_, _)
RECURSIVE DumpPairs(_, _)
DumpItems(xs, k) ==
    IF k > Len(xs) THEN <<>>
    ELSE (IF k > 1 THEN <<COMMA, WS>> ELSE <<>>) \o json_dumps(xs[k]) \o DumpItems(xs, k + 1)
DumpPairs(kvs, k) ==
    IF k > Len(kvs) THEN <<>>
    ELSE (IF k > 1 THEN <<COMMA, WS>> ELSE <<>>)
         \o <<Str(kvs[k][1]), COLON, WS>> \o json_dumps(kvs[k][2]) \o DumpPairs(kvs, k + 1)
json_dumps(val) ==
    IF val.t \in Atoms THEN <<val>>
    ELSE IF val.t = "list" THEN <<LB>> \o DumpItems(val.v, 1) \o <<RB>>
    ELSE <<LC>> \o DumpPairs(val.v, 1) \o <<RC>>

(***************************************************************************)
(* Python's object model, as far as the handler uses it.                   *)
(***************************************************************************)
\* isinstance(x, list)
IsList(x) == x.t = "list"
\* x == "literal" for a str literal
PyEq(x, s) == x.t = "str" /\ x.v = s
\* bool(x)
Truthy(x) ==
    CASE x.t = "num" -> x.v # 0
      [] x.t = "bool" -> x.v
      [] x.t = "null" -> FALSE
      [] x.t = "str" -> x.v # ""
      [] OTHER -> Len(x.v) > 0
\* len(x) is defined for list, str and dict and raises TypeError otherwise
Sized(x) == x.t \in {"list", "str", "obj"}
PyLen(x) == Len(x.v)
\* x + y on the values JSON can give: numbers (bool counts as 0/1) add,
\* str and list concatenate, everything else raises TypeError
IsNumber(x) == x.t \in {"num", "bool"}
AsInt(x) == IF x.t = "bool" THEN (IF x.v THEN 1 ELSE 0) ELSE x.v
CanAdd(x, y) ==
    \/ IsNumber(x) /\ IsNumber(y)
    \/ x.t = "str" /\ y.t = "str"
    \/ x.t = "list" /\ y.t = "list"
PyAdd(x, y) ==
    IF IsNumber(x) THEN Num(AsInt(x) + AsInt(y))
    ELSE IF x.t = "str" THEN Str(x.v \o y.v)
    ELSE List(x.v \o y.v)

\* repr(x), used by str() for the items of a list
RECURSIVE PyRepr(_)
RECURSIVE ReprItems(_, _)
RECURSIVE ReprPairs(_, _)
ReprItems(xs, k) ==
    IF k > Len(xs) THEN <<>>
    ELSE (IF k > 1 THEN <<COMMA, WS>> ELSE <<>>) \o PyRepr(xs[k]) \o ReprItems(xs, k + 1)
ReprPairs(kvs, k) ==
    IF k > Len(kvs) THEN <<>>
    ELSE (IF k > 1 THEN <<COMMA, WS>> ELSE <<>>)
         \o <<Bare("'" \o kvs[k][1] \o "'"), COLON, WS>> \o PyRepr(kvs[k][2])
         \o ReprPairs(kvs, k + 1)
PyRepr(x) ==
    CASE x.t = "num" -> <<x>>
      [] x.t = "bool" -> <<Bare(IF x.v THEN "True" ELSE "False")>>
      [] x.t = "null" -> <<Bare("None")>>
      [] x.t = "str" -> <<Bare("'" \o x.v \o "'")>>
      [] x.t = "list" -> <<LB>> \o ReprItems(x.v, 1) \o <<RB>>
      [] OTHER -> <<LC>> \o ReprPairs(x.v, 1) \o <<RC>>
\* str(x), which an f-string applies: the characters of a str unquoted
PyStr(x) == IF x.t = "str" THEN <<Bare(x.v)>> ELSE PyRepr(x)

(***************************************************************************)
(* The texts of the handler.                                               *)
(***************************************************************************)
\* (a variant: '\n' in body.strip('\n'))
HasInnerNewline(text) == \E k \in 2..(Len(text) - 1) : text[k].t = "nl"
\* '\n' in body
HasNewline(text) == \E k \in 1..Len(text) : text[k].t = "nl"

\* body.split('\n')
RECURSIVE SplitFrom(_, _, _)
SplitFrom(text, k, cur) ==
    IF k > Len(text) THEN <<cur>>
    ELSE IF text[k].t = "nl" THEN <<cur>> \o SplitFrom(text, k + 1, <<>>)
    ELSE SplitFrom(text, k + 1, Append(cur, text[k]))
Split(text) == SplitFrom(text, 1, <<>>)

\* line.strip()
RECURSIVE Strip(_)
Strip(line) ==
    IF line = <<>> THEN line
    ELSE IF Head(line).t = "ws" THEN Strip(Tail(line))
    ELSE IF line[Len(line)].t = "ws" THEN Strip(SubSeq(line, 1, Len(line) - 1))
    ELSE line

\* [line.strip() for line in body.split('\n') if line.strip()]
RECURSIVE StripAll(_, _)
StripAll(segs, k) ==
    IF k > Len(segs) THEN <<>>
    ELSE (IF Strip(segs[k]) # <<>> THEN <<Strip(segs[k])>> ELSE <<>>) \o StripAll(segs, k + 1)
\* (a variant: the lines taken last first)
ReadLinesReversed(text) ==
    LET ls == StripAll(Split(text), 1) IN [k \in 1..Len(ls) |-> ls[Len(ls) + 1 - k]]
ReadLines(text) == StripAll(Split(text), 1)

\* f'["resolve",-1,{result}]\n'
ResultResponse(result) ==
    <<LB, Str("resolve"), COMMA, Num(-1), COMMA>> \o PyStr(result) \o <<RB, NL>>
\* (a variant: the identifier drawn from a counter the requests share)
DefaultResponseNumbered ==
    <<LB, Str("resolve"), COMMA, Num(-1 - Cardinality(served)), COMMA, Str("ok"), RB, NL>>
\* '["resolve",-1,"ok"]\n'
DefaultResponse == <<LB, Str("resolve"), COMMA, Num(-1), COMMA, Str("ok"), RB, NL>>
\* json.dumps([{"result": "test"}])
LegacyResponse == json_dumps(List(<<Obj(<<<<"result", Str("test")>>>>)>>))
\* '["reject",-1,["error","bad_request","Invalid JSON"]]\n'
BadRequestResponse ==
    <<LB, Str("reject"), COMMA, Num(-1), COMMA,
      LB, Str("error"), COMMA, Str("bad_request"), COMMA, Str("Invalid JSON"), RB, RB, NL>>

\* lines 131-135: the headers do_OPTIONS sends
OptionsHeaders == {"Access-Control-Allow-Origin", "Access-Control-Allow-Methods",
                   "Access-Control-Allow-Headers"}
\* the headers of the two send paths
PlainHeaders == {"Content-Type"}
CorsHeaders == {"Content-Type", "Access-Control-Allow-Origin",
                "Access-Control-Allow-Methods", "Access-Control-Allow-Headers"}

(***************************************************************************)
(* One pass of the for loop over a line: what the body of the loop does    *)
(* with it.  go is "continue" (next line), "return" (the add result is     *)
(* sent and the handler returns) or "raise" (an exception other than       *)
(* JSONDecodeError leaves the handler; nothing is written).                *)
(***************************************************************************)
Continue(note) == [go |-> "continue", note |-> note, response |-> <<>>]
Return(text) == [go |-> "return", note |-> "result", response |-> text]
Raise(exc) == [go |-> "raise", note |-> exc, response |-> <<>>]

\* expr[k] if len(expr) > k else default   (k counted from 0)
ItemOr(expr, k, default) == IF Len(expr.v) > k THEN expr.v[k + 1] ELSE default

\* lines 83-97: the simulated method call
MethodCall(method_path, args) ==
    IF ~Truthy(method_path) THEN Continue("pipeline")
    ELSE IF ~Sized(method_path) THEN Raise("TypeError")
    ELSE IF method_path.t = "obj" THEN Raise("KeyError")
    ELSE IF ~(method_path.t = "list" /\ PyEq(method_path.v[1], "add")) THEN Continue("pipeline")
    ELSE IF ~Sized(args) THEN Raise("TypeError")
    ELSE IF PyLen(args) # 2 THEN Continue("pipeline")
    ELSE IF args.t = "obj" THEN Raise("KeyError")
    ELSE IF args.t = "str" THEN Return(ResultResponse(args))
    ELSE IF ~CanAdd(args.v[1], args.v[2]) THEN Raise("TypeError")
    ELSE Return(ResultResponse(PyAdd(args.v[1], args.v[2])))

\* lines 70-97: a push
Push(expr) ==
    IF IsList(expr) /\ PyLen(expr) > 0 /\ PyEq(expr.v[1], "pipeline")
    THEN MethodCall(ItemOr(expr, 2, List(<<>>)), ItemOr(expr, 3, List(<<>>)))
    ELSE Continue("push")

\* (a variant: no except clause, the error leaves the handler)
JSONDecodeErrorUncaught == Raise("JSONDecodeError")
\* the except clause of lines 103-104
JSONDecodeError == Continue("error")

\* lines 60-104
ProcessLine(line) ==
    LET r == json_loads(line) IN
    IF ~r.ok THEN JSONDecodeError
    ELSE IF ~(IsList(r.v) /\ PyLen(r.v) > 0) THEN Continue("parsed")
    ELSE IF PyEq(r.v.v[1], "push") /\ PyLen(r.v) >= 2 THEN Push(r.v.v[2])
    ELSE IF PyEq(r.v.v[1], "pull") THEN Continue("pull")
    ELSE Continue("parsed")

(***************************************************************************)
(* Request bodies.  A body is up to MaxLines segments joined by '\n'; the  *)
(* segments are the line texts below.                                      *)
(***************************************************************************)
MaxLines == 3

Arr2(x, y) == <<LB, x, COMMA, WS, y, RB>>
PushText(exprText) == <<LB, Str("push"), COMMA>> \o exprText \o <<RB>>
PullText(id) == <<LB, Str("pull"), COMMA, Num(id), RB>>
PipelineText(target, pathText, argsText) ==
    <<LB, Str("pipeline"), COMMA, Num(target), COMMA>> \o pathText \o <<COMMA>>
        \o argsText \o <<RB>>
AddPath == <<LB, Str("add"), RB>>
AddText(target, x, y) == PushText(PipelineText(target, AddPath, Arr2(x, y)))

Segments ==
    { <<>>,                                                      \* an empty line
      <<Bare("not-json")>>,                                      \* not-json
      PushText(<<Num(5)>>),                                      \* ["push",5]
      AddText(-1, Num(3), Num(4)),
      AddText(-99, Num(1), Num(2)),
      AddText(-1, Str("a"), Str("b")),
      AddText(-1, Num(1), Str("a")),
      PushText(PipelineText(-1, AddPath,                          \* add [[1], ["a"]]
          <<LB, LB, Num(1), RB, COMMA, WS, LB, Str("a"), RB, RB>>)),
      PushText(PipelineText(-1, <<Num(5)>>, Arr2(Num(1), Num(2)))),       \* path 5
      PushText(PipelineText(-1, <<LB, Str("sub"), RB>>, Arr2(Num(1), Num(2)))),
      PushText(PipelineText(-1, AddPath, <<LB, Num(1), RB>>)),  \* one argument
      <<WS>> \o PullText(-1) \o <<WS>>,
      PullText(-2),
      <<LB, Str("foo"), COMMA, Num(1), RB>> }                    \* ["foo",1]

RECURSIVE Join(_, _)
Join(segs, k) ==
    IF k > Len(segs) THEN <<>>
    ELSE (IF k > 1 THEN <<NL>> ELSE <<>>) \o segs[k] \o Join(segs, k + 1)
BodiesOf(n) == { Join(segs, 1) : segs \in [1..n -> Segments] }

(***************************************************************************)
(* The handler run to its end on one body: what the client gets back and   *)
(* the notes logged for the lines, in order.                               *)
(***************************************************************************)
Ev(e, n) == [ev |-> e, n |-> n]

RECURSIVE RunLoop(_, _, _)
RunLoop(ls, k, lg) ==
    IF k > Len(ls)
    THEN [outcome |-> "done", response |-> DefaultResponse, headers |-> CorsHeaders,
          log |-> Append(lg, Ev("default", 0))]
    ELSE LET o == ProcessLine(ls[k])
             lg2 == lg \o <<Ev("line", k - 1), Ev(o.note, k - 1)>>
         IN CASE o.go = "continue" -> RunLoop(ls, k + 1, lg2)
              [] o.go = "return" ->
                    [outcome |-> "done", response |-> o.response,
                     headers |-> PlainHeaders, log |-> lg2]
              [] OTHER ->
                    [outcome |-> "raised", response |-> <<>>, headers |-> {}, log |-> lg2]

\* (a variant: the except clause answers like the try block)
LegacyAnswerAlwaysParsed(text) == LegacyResponse
\* lines 112-118: what the legacy branch answers
LegacyAnswer(text) ==
    IF json_loads(text).ok THEN LegacyResponse ELSE BadRequestResponse

handle_batch_request(b) ==
    IF HasNewline(b)
    THEN RunLoop(ReadLines(b), 1, <<Ev("newline-delimited", Len(ReadLines(b)))>>)
    ELSE [outcome |-> "done", response |-> LegacyAnswer(b), headers |-> CorsHeaders,
          log |-> <<Ev("legacy", 0), Ev(IF json_loads(b).ok THEN "parsed" ELSE "error", 0)>>]

(***************************************************************************)
(* The handler as a state machine: one action per step of the code.        *)
(***************************************************************************)

Init ==
    /\ pc = "idle"
    /\ body = <<>>
    /\ lines = <<>>
    /\ i = 0
    /\ response = <<>>
    /\ headers = {}
    /\ writes = 0
    /\ log = <<>>
    /\ served = {}
    /\ apc = "idle"
    /\ content = <<>>
    /\ rs_lines = <<>>
    /\ ln = 0
    /\ in_test_module = FALSE
    /\ current_function = <<>>
    /\ function_complexity = 0
    /\ uncovered_items = [c \in {} |-> <<>>]
    /\ stats = [k \in {} |-> 0]
    /\ uncovered = [n \in {} |-> <<>>]
    /\ mpc = "idle"
    /\ summary = [k \in {} |-> 0]
    /\ total_gaps = 0
    /\ message = ""
    /\ status = 0

\* lines 46-56 and 110-111: read the body, choose the format
Receive(b) ==
    /\ pc = "idle"
    /\ body' = b
    /\ response' = <<>>
    /\ headers' = {}
    /\ writes' = 0
    /\ IF HasNewline(b)
       THEN /\ lines' = ReadLines(b)
            /\ i' = 1
            /\ pc' = "loop"
            /\ log' = <<Ev("newline-delimited", Len(lines'))>>
       ELSE /\ lines' = <<>>
            /\ i' = 0
            /\ pc' = "legacy"
            /\ log' = <<Ev("legacy", 0)>>
    /\ UNCHANGED <<served, analyzer, program>>

\* lines 58-104: one pass of the loop
LoopLine ==
    /\ pc = "loop"
    /\ i <= Len(lines)
    /\ LET o == ProcessLine(lines[i]) IN
       /\ log' = log \o <<Ev("line", i - 1), Ev(o.note, i - 1)>>
       /\ \/ /\ o.go = "continue"
             /\ i' = i + 1
             /\ UNCHANGED <<pc, response, headers, writes>>
          \/ /\ o.go = "return"
             /\ response' = o.response
             /\ headers' = PlainHeaders
             /\ writes' = writes + 1
             /\ pc' = "done"
             /\ UNCHANGED i
          \/ /\ o.go = "raise"
             /\ pc' = "raised"
             /\ UNCHANGED <<i, response, headers, writes>>
    /\ UNCHANGED <<body, lines, served, analyzer, program>>

\* lines 106-108 and 120-127: the loop ended, the default response is sent
SendDefault ==
    /\ pc = "loop"
    /\ i > Len(lines)
    /\ response' = DefaultResponse
    /\ headers' = CorsHeaders
    /\ writes' = writes + 1
    /\ log' = Append(log, Ev("default", 0))
    /\ pc' = "done"
    /\ UNCHANGED <<body, lines, i, served, analyzer, program>>

\* lines 110-127: the legacy branch
Legacy ==
    /\ pc = "legacy"
    /\ response' = LegacyAnswer(body)
    /\ headers' = CorsHeaders
    /\ writes' = writes + 1
    /\ log' = Append(log, Ev(IF json_loads(body).ok THEN "parsed" ELSE "error", 0))
    /\ pc' = "done"
    /\ UNCHANGED <<body, lines, i, served, analyzer, program>>

\* the exchange as the client saw it
Exchange == [body |-> body, outcome |-> pc, response |-> response]

\* the handler object is gone after the request; the server takes the next
Reset ==
    /\ pc \in {"done", "raised"}
    /\ pc' = "idle"
    /\ body' = <<>>
    /\ lines' = <<>>
    /\ i' = 0
    /\ response' = <<>>
    /\ headers' = {}
    /\ writes' = 0
    /\ log' = <<>>
    /\ UNCHANGED <<analyzer, program>>

Close == Reset /\ UNCHANGED served

\* the client keeps the exchange to compare later ones with it
MaxServed == 2
Keep ==
    /\ Cardinality(served) < MaxServed
    /\ Reset
    /\ served' = served \cup {Exchange}

\* do_POST on /rpc/batch with any of the bodies
Post == pc = "idle" /\ \E n \in 1..MaxLines : \E b \in BodiesOf(n) : Receive(b)

Next ==
    \/ Post
    \/ LoopLine
    \/ SendDefault
    \/ Legacy
    \/ Close

Spec == Init /\ [][Next]_vars

(***************************************************************************)
(* A client that posts a few bodies again and again and keeps what it got. *)
(***************************************************************************)
Replayed ==
    { <<>>,
      PushText(<<Num(5)>>),
      Join(<<PushText(<<Num(5)>>), AddText(-1, Num(3), Num(4)), PullText(-2)>>, 1),
      Join(<<<<Bare("not-json")>>, PushText(<<Num(5)>>)>>, 1),
      Join(<<AddText(-1, Str("a"), Str("b")), <<>>>>, 1),
      Join(<<PullText(-2), AddText(-1, Num(1), Str("a"))>>, 1) }

PostAgain == pc = "idle" /\ \E b \in Replayed : Receive(b)

NextReplay ==
    \/ PostAgain
    \/ LoopLine
    \/ SendDefault
    \/ Legacy
    \/ Close
    \/ Keep

SpecReplay == Init /\ [][NextReplay]_vars

(***************************************************************************)
(* identify-uncovered-code.py.  Rust text is a sequence of characters; the *)
(* substring tests, str.split, str.strip and the regular expressions of    *)
(* analyze_module are operators on such sequences.                         *)
(***************************************************************************)
handler == <<pc, body, lines, i, response, headers, writes, log, served>>

\* pat in text; re.search of a literal pattern
Contains(text, pat) ==
    \E k \in 1..(Len(text) - Len(pat) + 1) : SubSeq(text, k, k + Len(pat) - 1) = pat
\* the literal pat stands at position k of text
StartsAt(text, k, pat) ==
    k + Len(pat) - 1 <= Len(text) /\ SubSeq(text, k, k + Len(pat) - 1) = pat
\* test_fn.endswith(name)
EndsWith(text, pat) ==
    Len(pat) <= Len(text) /\ SubSeq(text, Len(text) - Len(pat) + 1, Len(text)) = pat

\* \s and \w of the regular expressions
Space == {" ", "\t", "\n"}
WordChar ==
    { "a", "b", "c", "d", "e", "f", "g", "h", "i", "j", "k", "l", "m", "n", "o", "p", "q", "r", "s", "t", "u", "v", "w", "x", "y", "z",
      "A", "B", "C", "D", "E", "F", "G", "H", "I", "J", "K", "L", "M", "N", "O", "P", "Q", "R", "S", "T", "U", "V", "W", "X", "Y", "Z",
      "0", "1", "2", "3", "4", "5", "6", "7", "8", "9", "_" }

\* line 59: content.split('\n')
RECURSIVE SplitContent(_)
SplitContent(text) ==
    LET nls == {k \in 1..Len(text) : text[k] = "\n"} IN
    IF nls = {} THEN <<text>>
    ELSE LET k == CHOOSE n \in nls : \A o \in nls : n <= o
         IN <<SubSeq(text, 1, k - 1)>> \o SplitContent(SubSeq(text, k + 1, Len(text)))

\* line.strip()
StripLine(line) ==
    LET ks == {k \in 1..Len(line) : line[k] \notin Space} IN
    IF ks = {} THEN <<>>
    ELSE SubSeq(line, CHOOSE n \in ks : \A o \in ks : n <= o,
                      CHOOSE n \in ks : \A o \in ks : n >= o)
\* line.strip()[:80]
Code(line) ==
    LET t == StripLine(line) IN SubSeq(t, 1, IF Len(t) < 80 THEN Len(t) ELSE 80)

\* the end of a run of \s, of \w, that starts at k
RECURSIVE SkipSpace(_, _)
SkipSpace(text, k) ==
    IF k <= Len(text) /\ text[k] \in Space THEN SkipSpace(text, k + 1) ELSE k
RECURSIVE WordEnd(_, _)
WordEnd(text, k) ==
    IF k <= Len(text) /\ text[k] \in WordChar THEN WordEnd(text, k + 1) ELSE k

NoMatch == [ok |-> FALSE, name |-> <<>>, async |-> FALSE]
\* fn\s+(\w+) at position k
FnAt(text, k) ==
    LET d == SkipSpace(text, k + 2)
        e == WordEnd(text, d)
    IN IF StartsAt(text, k, <<"f", "n">>) /\ d > k + 2 /\ e > d
       THEN [ok |-> TRUE, name |-> SubSeq(text, d, e - 1), async |-> FALSE]
       ELSE NoMatch
\* line 93: re.match(r'\s*pub\s+(async\s+)?fn\s+(\w+)', line)
pub_fn_match(line) ==
    LET a == SkipSpace(line, 1)
        c == SkipSpace(line, a + 3)
        d == SkipSpace(line, c + 5)
        withAsync == IF StartsAt(line, c, <<"a", "s", "y", "n", "c">>) /\ d > c + 5
                     THEN FnAt(line, d) ELSE NoMatch
    IN IF ~(StartsAt(line, a, <<"p", "u", "b">>) /\ c > a + 3) THEN NoMatch
       ELSE IF withAsync.ok THEN [withAsync EXCEPT !.async = TRUE]
       ELSE FnAt(line, c)

\* fn\s+(test_\w+) at position k
TestFnAt(text, k) ==
    LET d == SkipSpace(text, k + 2)
        e == WordEnd(text, d)
    IN IF /\ StartsAt(text, k, <<"f", "n">>) /\ d > k + 2
          /\ StartsAt(text, d, <<"t", "e", "s", "t", "_">>) /\ e > d + 5
       THEN [ok |-> TRUE, name |-> SubSeq(text, d, e - 1), async |-> FALSE]
       ELSE NoMatch
\* line 74: set(re.findall(r'fn\s+(test_\w+)', content))
test_functions(text) ==
    { TestFnAt(text, k).name : k \in {j \in 1..Len(text) : TestFnAt(text, j).ok} }
\* line 73
has_tests(text) == Contains(text, <<"#", "[", "c", "f", "g", "(", "t", "e", "s", "t", ")", "]">>) \/ Contains(text, <<"#", "[", "t", "e", "s", "t", "]">>)

\* lines 83, 85: the marks of the test module boundaries
TestModuleMarks == { <<"#", "[", "c", "f", "g", "(", "t", "e", "s", "t", ")", "]">>,
                   <<"m", "o", "d", " ", "t", "e", "s", "t", "s">> }
ClosingBrace == <<"}">>
\* line 105: the names that need no test
Exempt == { <<"n", "e", "w">>,
            <<"d", "e", "f", "a", "u", "l", "t">>,
            <<"f", "m", "t">>,
            <<"f", "r", "o", "m">>,
            <<"i", "n", "t", "o">>,
            <<"d", "r", "o", "p">> }
\* lines 114, 116: the complexity indicators
Keywords == { <<"i", "f", " ">>,
              <<"m", "a", "t", "c", "h", " ">>,
              <<"w", "h", "i", "l", "e", " ">>,
              <<"f", "o", "r", " ">> }
ReturnWord == <<"r", "e", "t", "u", "r", "n">>
\* line 120: the complexity above which a function is flagged
ComplexityLimit == 10
\* lines 135-136: a simple match arm
Arrow == <<"=", ">">>
OpenBrace == <<"{">>
ArmPatterns == { <<"_">>,
                 <<"N", "o", "n", "e">>,
                 <<"E", "r", "r">>,
                 <<"S", "o", "m", "e">> }
\* lines 128, 143, 150, 157, 164: the patterns of the other categories
ErrorPatterns == { <<"E", "r", "r", "(">>,
                   <<".", "m", "a", "p", "_", "e", "r", "r">>,
                   <<"r", "e", "t", "u", "r", "n", " ", "E", "r", "r">>,
                   <<".", "e", "x", "p", "e", "c", "t", "(">>,
                   <<".", "u", "n", "w", "r", "a", "p", "(">>,
                   <<"?", ";">> }
AsyncPatterns == { <<".", "a", "w", "a", "i", "t">>,
                   <<"t", "o", "k", "i", "o", ":", ":", "s", "p", "a", "w", "n">>,
                   <<"a", "s", "y", "n", "c", " ", "m", "o", "v", "e">>,
                   <<"f", "u", "t", "u", "r", "e", "s", ":", ":">> }
Unsafe == <<"u", "n", "s", "a", "f", "e">>
ResourcePatterns == { <<"D", "r", "o", "p">>,
                      <<"d", "r", "o", "p", "(">>,
                      <<"c", "l", "o", "s", "e", "(">>,
                      <<"s", "h", "u", "t", "d", "o", "w", "n">>,
                      <<"c", "l", "e", "a", "n", "u", "p">>,
                      <<"d", "i", "s", "p", "o", "s", "e">> }
ConcurrencyPatterns == { <<"A", "r", "c", ":", ":", "n", "e", "w">>,
                         <<"M", "u", "t", "e", "x">>,
                         <<"R", "w", "L", "o", "c", "k">>,
                         <<"A", "t", "o", "m", "i", "c", "U">>,
                         <<"c", "h", "a", "n", "n", "e", "l", "(">>,
                         <<"m", "p", "s", "c", ":", ":">> }
Search(patterns, line) == \E p \in patterns : Contains(line, p)

\* lines 61-70
Categories ==
    {"untested_functions", "error_paths", "match_arms", "async_code", "unsafe_code",
     "complex_logic", "resource_management", "concurrency"}
\* uncovered_items[category].append(item) when the test holds
AppendIf(test, items, category, item) ==
    IF test THEN [items EXCEPT ![category] = Append(@, item)] ELSE items
FunctionNames(entries) == {entries[k].name : k \in 1..Len(entries)}
\* lines 98-103
HasTest(text, fn) == \E t \in test_functions(text) : Contains(t, fn) \/ EndsWith(t, fn)

\* self.stats is a defaultdict(int): a key not set yet reads 0
StatOf(st, key) == IF key \in DOMAIN st THEN st[key] ELSE 0
AddStat(st, key, n) ==
    [k \in DOMAIN st \cup {key} |-> IF k = key THEN StatOf(st, key) + n ELSE st[k]]

\* lines 57-79: the file is read, the locals are set
analyze_module(text) ==
    /\ apc = "idle"
    /\ content' = text
    /\ rs_lines' = SplitContent(text)
    /\ ln' = 1
    /\ in_test_module' = FALSE
    /\ current_function' = <<>>
    /\ function_complexity' = 0
    /\ uncovered_items' = [c \in Categories |-> <<>>]
    /\ apc' = "scan"
    /\ UNCHANGED <<stats, uncovered, handler, program>>

\* lines 81-168: one pass of the loop over the lines
AnalyzeLine ==
    /\ apc = "scan"
    /\ ln <= Len(rs_lines)
    /\ LET line == rs_lines[ln]
           in_test == IF Search(TestModuleMarks, line) THEN TRUE
                      ELSE IF in_test_module /\ StripLine(line) = ClosingBrace THEN FALSE
                      ELSE in_test_module
       IN /\ in_test_module' = in_test
          /\ IF in_test
             THEN UNCHANGED <<current_function, function_complexity, uncovered_items>>
             ELSE LET m == pub_fn_match(line)
                      fn == IF m.ok THEN m.name ELSE current_function
                      c0 == IF m.ok THEN 0 ELSE function_complexity
                      u1 == AppendIf(m.ok /\ ~HasTest(content, fn) /\ fn \notin Exempt,
                                     uncovered_items, "untested_functions",
                                     [line |-> ln, name |-> fn, async |-> m.async])
                      c1 == IF fn # <<>> /\ Search(Keywords, line) THEN c0 + 1 ELSE c0
                      c2 == IF fn # <<>> /\ Contains(line, ReturnWord) THEN c1 + 1 ELSE c1
                      u2 == AppendIf(/\ fn # <<>>
                                     /\ c2 > ComplexityLimit
                                     /\ fn \notin FunctionNames(u1["untested_functions"]),
                                     u1, "complex_logic",
                                     [line |-> ln, function |-> fn, complexity |-> c2])
                      item == [line |-> ln, code |-> Code(line)]
                      u3 == AppendIf(Search(ErrorPatterns, line), u2, "error_paths", item)
                      u4 == AppendIf(/\ Contains(line, Arrow)
                                     /\ ~Contains(line, OpenBrace)
                                     /\ Search(ArmPatterns, line),
                                     u3, "match_arms", item)
                      u5 == AppendIf(Search(AsyncPatterns, line), u4, "async_code", item)
                      u6 == AppendIf(Contains(line, Unsafe), u5, "unsafe_code", item)
                      u7 == AppendIf(Search(ResourcePatterns, line), u6,
                                     "resource_management", item)
                      u8 == AppendIf(Search(ConcurrencyPatterns, line), u7,
                                     "concurrency", item)
                  IN /\ current_function' = fn
                     /\ function_complexity' = c2
                     /\ uncovered_items' = u8
    /\ ln' = ln + 1
    /\ UNCHANGED <<apc, content, rs_lines, stats, uncovered, handler, program>>

\* lines 170-180: the results are stored, the statistics updated
ModuleName == "module"
Store ==
    /\ apc = "scan"
    /\ ln > Len(rs_lines)
    /\ IF \E c \in Categories : Len(uncovered_items[c]) > 0
       THEN /\ uncovered' = [n \in DOMAIN uncovered \cup {ModuleName} |-> uncovered_items]
            /\ stats' =
                 AddStat(AddStat(AddStat(AddStat(AddStat(stats,
                    "total_modules", 1),
                    "modules_without_tests", IF has_tests(content) THEN 0 ELSE 1),
                    "untested_functions", Len(uncovered_items["untested_functions"])),
                    "error_paths", Len(uncovered_items["error_paths"])),
                    "async_code", Len(uncovered_items["async_code"]))
       ELSE UNCHANGED <<stats, uncovered>>
    /\ apc' = "stored"
    /\ UNCHANGED <<content, rs_lines, ln, in_test_module, current_function,
                   function_complexity, uncovered_items, handler, program>>

\* the run is over: the analyzer is gone
Finish ==
    /\ apc = "stored"
    /\ apc' = "idle"
    /\ content' = <<>>
    /\ rs_lines' = <<>>
    /\ ln' = 0
    /\ in_test_module' = FALSE
    /\ current_function' = <<>>
    /\ function_complexity' = 0
    /\ uncovered_items' = [c \in {} |-> <<>>]
    /\ stats' = [k \in {} |-> 0]
    /\ uncovered' = [n \in {} |-> <<>>]
    /\ UNCHANGED <<handler, program>>

\* the Rust files analysed: up to MaxFileLines lines of these, each ended by
\* a newline
MaxFileLines == 4
\* #[cfg(test)]
CfgTestLine == <<"#", "[", "c", "f", "g", "(", "t", "e", "s", "t", ")", "]">>
\* mod tests {
ModTestsLine == <<"m", "o", "d", " ", "t", "e", "s", "t", "s", " ", "{">>
\*     fn test_run() {
TestFnLine == <<" ", " ", " ", " ", "f", "n", " ", "t", "e", "s", "t", "_", "r", "u", "n", "(", ")", " ", "{">>
\*     }
CloseBlockLine == <<" ", " ", " ", " ", "}">>
\* }
CloseLine == <<"}">>
\*     unsafe fn raw() {}
UnsafeFnLine == <<" ", " ", " ", " ", "u", "n", "s", "a", "f", "e", " ", "f", "n", " ", "r", "a", "w", "(", ")", " ", "{", "}">>
\* pub fn run() {
PubFnLine == <<"p", "u", "b", " ", "f", "n", " ", "r", "u", "n", "(", ")", " ", "{">>
\*     x.unwrap();
UnwrapLine == <<" ", " ", " ", " ", "x", ".", "u", "n", "w", "r", "a", "p", "(", ")", ";">>
RustLines ==
    {CfgTestLine, ModTestsLine, TestFnLine, CloseBlockLine, CloseLine, UnsafeFnLine,
     PubFnLine, UnwrapLine}
RECURSIVE FileOf(_, _)
FileOf(ls, k) == IF k > Len(ls) THEN <<>> ELSE ls[k] \o <<"\n">> \o FileOf(ls, k + 1)
Analyze ==
    apc = "idle" /\ \E n \in 1..MaxFileLines : \E ls \in [1..n -> RustLines] :
        analyze_module(FileOf(ls, 1))

NextScan ==
    \/ Analyze
    \/ AnalyzeLine
    \/ Store
    \/ Finish

SpecScan == Init /\ [][NextScan]_vars

(***************************************************************************)
(* main of identify-uncovered-code.py.                                     *)
(***************************************************************************)
\* line 364: sum(json_data['summary'].values())
RECURSIVE SumValues(_, _)
SumValues(f, keys) ==
    IF keys = {} THEN 0
    ELSE LET k == CHOOSE x \in keys : TRUE IN f[k] + SumValues(f, keys \ {k})

\* lines 367, 370, 380: the thresholds
CriticalAbove == 200
WarningAbove == 100
PassBelow == 100

\* the statistics analyze_all_modules can leave: modules stored, those of
\* them without tests, and the counts of three categories
MaxModules == 2
MaxErrorPaths == 200
Summaries(m) ==
    IF m = 0
    THEN {[total_modules |-> 0, modules_without_tests |-> 0, untested_functions |-> 0,
           error_paths |-> 0, async_code |-> 0]}
    ELSE {[total_modules |-> m, modules_without_tests |-> w, untested_functions |-> u,
           error_paths |-> e, async_code |-> a] :
             w \in 0..m, u \in 0..m, e \in 0..MaxErrorPaths, a \in 0..m}

\* lines 345-365: the analysis has run, the report is saved, the gaps summed
Main(s) ==
    /\ mpc = "idle"
    /\ summary' = s
    /\ total_gaps' = SumValues(s, DOMAIN s)
    /\ mpc' = "summed"
    /\ UNCHANGED <<message, status, handler, analyzer>>

\* lines 367-374: the verdict printed
Report ==
    /\ mpc = "summed"
    /\ message' = IF total_gaps > CriticalAbove THEN "CRITICAL"
                  ELSE IF total_gaps > WarningAbove THEN "WARNING"
                  ELSE "Coverage is improving"
    /\ mpc' = "reported"
    /\ UNCHANGED <<summary, total_gaps, status, handler, analyzer>>

\* line 380: the exit status
Exit ==
    /\ mpc = "reported"
    /\ status' = IF total_gaps < PassBelow THEN 0 ELSE 1
    /\ mpc' = "exit"
    /\ UNCHANGED <<summary, total_gaps, message, handler, analyzer>>

Run == mpc = "idle" /\ \E m \in 0..MaxModules : \E s \in Summaries(m) : Main(s)

NextMain ==
    \/ Run
    \/ Report
    \/ Exit

SpecMain == Init /\ [][NextMain]_vars

(***************************************************************************)
(* Reading a finished exchange: the request as the protocol describes it   *)
(* and the instructions of the response.                                   *)
(***************************************************************************)
Finished == pc \in {"done", "raised"}
NewlineIn(text) == \E k \in 1..Len(text) : text[k] = NL
Wire == NewlineIn(body)

\* the response, line by line, each line decoded
ResponseLines == ReadLines(response)
Decoded(text) == json_loads(text)
IsAnswer(r) ==
    /\ r.ok /\ r.v.t = "list" /\ Len(r.v.v) = 3
    /\ r.v.v[1] \in {Str("resolve"), Str("reject")}
    /\ r.v.v[2].t = "num"
AnswerIn(tag, id) ==
    { k \in 1..Len(ResponseLines) :
        /\ IsAnswer(Decoded(ResponseLines[k]))
        /\ Decoded(ResponseLines[k]).v.v[1] = Str(tag)
        /\ Decoded(ResponseLines[k]).v.v[2] = Num(id) }
AnswersFor(id) == AnswerIn("resolve", id) \cup AnswerIn("reject", id)
RejectsOfKind(kind) ==
    { k \in 1..Len(ResponseLines) :
        /\ IsAnswer(Decoded(ResponseLines[k]))
        /\ Decoded(ResponseLines[k]).v.v[1] = Str("reject")
        /\ Decoded(ResponseLines[k]).v.v[3].t = "list"
        /\ Len(Decoded(ResponseLines[k]).v.v[3].v) >= 2
        /\ Decoded(ResponseLines[k]).v.v[3].v[2] = Str(kind) }

\* the request, line by line
RequestLines == ReadLines(body)
Tagged(text, tag) ==
    /\ Decoded(text).ok /\ Decoded(text).v.t = "list" /\ Len(Decoded(text).v.v) >= 2
    /\ Decoded(text).v.v[1] = Str(tag)
IsPushText(text) == Tagged(text, "push")
IsPullText(text) == Tagged(text, "pull") /\ Decoded(text).v.v[2].t = "num"
PulledId(text) == Decoded(text).v.v[2].v
PushedExpr(text) == Decoded(text).v.v[2]
IsCall(expr) ==
    /\ expr.t = "list" /\ Len(expr.v) = 4
    /\ expr.v[1] = Str("pipeline") /\ expr.v[2].t = "num"
\* not valid JSON, or no array that starts with an instruction tag
Malformed(text) ==
    LET d == Decoded(text) IN
    \/ ~d.ok
    \/ d.v.t # "list"
    \/ Len(d.v.v) = 0
    \/ d.v.v[1] \notin {Str("push"), Str("pull")}
\* the k-th push of a batch is given the identifier -k
PushesBefore(k) == Cardinality({ j \in 1..(k - 1) : IsPushText(RequestLines[j]) })
AllocatedBefore(k) == { -n : n \in 1..PushesBefore(k) }
IdOfPush(k) == -(PushesBefore(k) + 1)

\* C1: in a newline-delimited batch every pull of an identifier an earlier
\* push of the batch allocated is answered by exactly one resolve or reject
\* line for that identifier.
C1_EveryPullAnswered ==
    (Finished /\ Wire) =>
        \A k \in 1..Len(RequestLines) :
            (IsPullText(RequestLines[k]) /\ PulledId(RequestLines[k]) \in AllocatedBefore(k))
                => Cardinality(AnswersFor(PulledId(RequestLines[k]))) = 1

IsAddScenario ==
    /\ Len(RequestLines) = 3
    /\ IsPushText(RequestLines[1]) /\ ~IsCall(PushedExpr(RequestLines[1]))
    /\ IsPushText(RequestLines[2]) /\ IsCall(PushedExpr(RequestLines[2]))
    /\ PushedExpr(RequestLines[2]).v[2] = Num(-1)
    /\ PushedExpr(RequestLines[2]).v[3] = List(<<Str("add")>>)
    /\ PushedExpr(RequestLines[2]).v[4].t = "list"
    /\ Len(PushedExpr(RequestLines[2]).v[4].v) = 2
    /\ \A n \in 1..2 : PushedExpr(RequestLines[2]).v[4].v[n].t = "num"
    /\ IsPullText(RequestLines[3]) /\ PulledId(RequestLines[3]) = -2
ScenarioSum ==
    PushedExpr(RequestLines[2]).v[4].v[1].v + PushedExpr(RequestLines[2]).v[4].v[2].v
\* C2: push a literal, push ["pipeline",-1,["add"],[a,b]] with numbers a, b,
\* pull -2: the response is the one line ["resolve",-2,a+b].
C2_AddScenarioResolvesMinus2 ==
    (Finished /\ Wire /\ IsAddScenario) =>
        /\ Len(ResponseLines) = 1
        /\ Decoded(ResponseLines[1]) =
              [ok |-> TRUE, v |-> List(<<Str("resolve"), Num(-2), Num(ScenarioSum)>>)]

UnknownTarget(k) ==
    /\ IsPushText(RequestLines[k])
    /\ IsCall(PushedExpr(RequestLines[k]))
    /\ PushedExpr(RequestLines[k]).v[2].v \notin (AllocatedBefore(k) \cup {IdOfPush(k)})
\* C3: a pushed call whose target identifier is not allocated when the push
\* is decoded is answered with a reject of kind unknown_id and with no
\* resolve.
C3_UnknownTargetRejected ==
    (Finished /\ Wire) =>
        \A k \in 1..Len(RequestLines) :
            UnknownTarget(k) =>
                /\ RejectsOfKind("unknown_id") # {}
                /\ AnswerIn("resolve", IdOfPush(k)) = {}

MalformedLines ==
    LET rl == RequestLines IN { k \in 1..Len(rl) : Malformed(rl[k]) }
\* C4: every malformed line of a newline-delimited batch produces a reject
\* against the sentinel identifier -1.
C4_MalformedLineRejected ==
    (Finished /\ Wire) =>
        Cardinality(AnswerIn("reject", -1)) >= Cardinality(MalformedLines)

RECURSIVE EmptyMalformed(_, _)
EmptyMalformed(segs, k) ==
    IF k > Len(segs) THEN <<>>
    ELSE <<IF Strip(segs[k]) # <<>> /\ Malformed(Strip(segs[k])) THEN <<>> ELSE segs[k]>>
         \o EmptyMalformed(segs, k + 1)
WithoutMalformed(text) == Join(EmptyMalformed(Split(text), 1), 1)
NoteOfInstruction(e) == e.ev \notin {"newline-delimited", "line", "error", "parsed"}
RECURSIVE Names(_)
Names(lg) == IF lg = <<>> THEN <<>> ELSE <<Head(lg).ev>> \o Names(Tail(lg))
InstructionNotes(lg) == Names(SelectSeq(lg, NoteOfInstruction))
\* C5: a malformed line does not abort the batch: the handler ends the same
\* way, with the same response and the same notes for the well-formed
\* lines, as on the body with every malformed line emptied.
C5_MalformedLineDoesNotAbort ==
    (Finished /\ Wire /\ MalformedLines # {}) =>
        LET clean == handle_batch_request(WithoutMalformed(body)) IN
        /\ pc = clean.outcome
        /\ response = clean.response
        /\ InstructionNotes(log) = InstructionNotes(clean.log)
C5_Witness ==
    /\ pc = "done"
    /\ body = Join(<<PushText(<<Num(5)>>), <<Bare("not-json")>>,
                     AddText(-1, Num(3), Num(4))>>, 1)
    /\ InstructionNotes(log) = <<"push", "result">>
    /\ Decoded(ResponseLines[1]).v = List(<<Str("resolve"), Num(-1), Num(7)>>)

BadRequest ==
    List(<<Str("reject"), Num(-1),
           List(<<Str("error"), Str("bad_request"), Str("Invalid JSON")>>)>>)
\* C6: a body with no newline that is not valid JSON is answered with the
\* single instruction ["reject",-1,["error","bad_request","Invalid JSON"]].
C6_LegacyInvalidIsBadRequest ==
    (pc \in {"legacy", "done", "raised"} /\ ~Wire /\ ~Decoded(body).ok) =>
        /\ pc # "raised"
        /\ pc = "done" =>
              /\ writes = 1
              /\ Len(ResponseLines) = 1
              /\ Decoded(ResponseLines[1]) = [ok |-> TRUE, v |-> BadRequest]
C6_Witness ==
    /\ pc = "done"
    /\ body = <<>>
    /\ Decoded(ResponseLines[1]).v = BadRequest

IsLegacyForm(r) ==
    \/ ~NewlineIn(r) /\ (LET d == Decoded(r) IN d.ok /\ d.v.t = "list" /\ ~IsAnswer(d))
    \/ RejectsOfKind("bad_request") # {}
\* C7: a body is handled as the legacy form exactly when it holds no
\* newline; a legacy body that is valid JSON gets a single JSON array that
\* is no resolve/reject line; a body with a newline never gets a legacy
\* answer.
C7_LegacyIffNoNewline ==
    /\ pc # "idle" => (log[1].ev = "legacy" <=> ~Wire)
    /\ pc # "idle" => (log[1].ev = "newline-delimited" <=> Wire)
    /\ (pc = "done" /\ ~Wire /\ Decoded(body).ok) =>
          /\ ~NewlineIn(response)
          /\ Decoded(response).ok /\ Decoded(response).v.t = "list"
          /\ ~IsAnswer(Decoded(response))
    /\ (Finished /\ Wire) => ~IsLegacyForm(response)
C7_Witness ==
    /\ pc = "done"
    /\ body = PushText(<<Num(5)>>)
    /\ log[1].ev = "legacy"
    /\ Decoded(response).v = List(<<Obj(<<<<"result", Str("test")>>>>)>>)

\* C8: every line of the response to a newline-delimited batch parses as a
\* JSON array ["resolve", id, value] or ["reject", id, error].
C8_ResponseLinesParse ==
    (pc = "done" /\ Wire) =>
        \A k \in 1..Len(ResponseLines) : IsAnswer(Decoded(ResponseLines[k]))

\* C9: the handler completes on every body and writes exactly one response.
C9_AlwaysOneResponse ==
    Finished => (pc = "done" /\ writes = 1)

SameAnswer(e1, e2) == e1.outcome = e2.outcome /\ e1.response = e2.response
\* C10: two requests with the same body get the same outcome and the same
\* response text, whatever was handled before or in between, and nothing a
\* request wrote is left when the next one is read.
C10_SameBodySameResponse ==
    /\ \A e1, e2 \in served : e1.body = e2.body => SameAnswer(e1, e2)
    /\ Finished => \A e \in served : e.body = body => SameAnswer(e, Exchange)
    /\ pc = "idle" =>
          /\ body = <<>> /\ lines = <<>> /\ i = 0 /\ response = <<>>
          /\ headers = {} /\ writes = 0 /\ log = <<>>
C10_Witness ==
    /\ pc = "done"
    /\ log[Len(log)].ev = "default"
    /\ \E e \in served : e.body = body /\ SameAnswer(e, Exchange)
    /\ \E e \in served : e.body # body

(***************************************************************************)
(* The order of the work and the correlation of the pushes.                *)
(***************************************************************************)
\* the lines of the body as submitted: the segments between the newlines
\* that are not blank, in their order, each without its outer whitespace
NotBlank(seg) == Strip(seg) # <<>>
SubmittedLines ==
    LET nb == SelectSeq(Split(body), NotBlank) IN [k \in 1..Len(nb) |-> Strip(nb[k])]
IsLineEvent(e) == e.ev = "line"
LineEvents == SelectSeq(log, IsLineEvent)
\* the request line whose push the response answers (0 when none does)
AnsweredLine ==
    IF pc = "done" /\ log[Len(log)].ev = "result" THEN log[Len(log)].n + 1 ELSE 0

\* C11: each push of a batch is assigned one fresh identifier in instruction
\* order (-1, -2, ...): the answer to the k-th push carries -k, so no two
\* pushes are correlated with the same identifier.
C11_PushAnsweredUnderItsOwnId ==
    (pc = "done" /\ Wire /\ AnsweredLine > 0) =>
        /\ Len(ResponseLines) = 1
        /\ IsAnswer(Decoded(ResponseLines[1])) =>
              Decoded(ResponseLines[1]).v.v[2] = Num(IdOfPush(AnsweredLine))

\* C12: when the response is written, every instruction line of the batch
\* has been decoded and processed.
C12_ResponseAfterEveryLine ==
    (pc = "done" /\ Wire) => Len(LineEvents) = Len(SubmittedLines)

\* C13: the lines are handled strictly in submission order, blank lines
\* skipped: the k-th line handled is the k-th non-blank line of the body,
\* and none is handled before the one ahead of it.
C13_LinesInSubmissionOrder ==
    (pc \in {"loop", "done", "raised"} /\ Wire) =>
        LET sub == SubmittedLines
            le == LineEvents
        IN /\ Len(le) <= Len(sub)
           /\ Len(log) = 1 + 2 * Len(le) + (IF log[Len(log)].ev = "default" THEN 1 ELSE 0)
           /\ pc = "loop" => Len(le) = i - 1
           /\ \A k \in 1..Len(le) :
                 /\ le[k].n = k - 1
                 /\ log[2 * k] = Ev("line", k - 1)
                 /\ log[2 * k + 1] = Ev(ProcessLine(sub[k]).note, k - 1)
C13_Witness ==
    /\ pc = "done"
    /\ body = Join(<<PushText(<<Num(5)>>), <<>>, PullText(-2)>>, 1)
    /\ Len(LineEvents) = 2
    /\ log[3].ev = "push" /\ log[5].ev = "pull"

\* a pushed call that cannot be invoked: its method path names no bound
\* callable (only add is bound), or it calls add with other than 2 arguments
IsCallPush(k) == IsPushText(RequestLines[k]) /\ IsCall(PushedExpr(RequestLines[k]))
CallPath(k) == PushedExpr(RequestLines[k]).v[3]
CallArgs(k) == PushedExpr(RequestLines[k]).v[4]
UnknownMethod(k) == IsCallPush(k) /\ CallPath(k) # List(<<Str("add")>>)
ArityMismatch(k) ==
    /\ IsCallPush(k)
    /\ CallPath(k) = List(<<Str("add")>>)
    /\ CallArgs(k).t = "list" /\ Len(CallArgs(k).v) # 2
\* C14: a pushed call that cannot be invoked (unknown method, or add with an
\* argument count other than 2) is rejected and never resolved.
C14_UninvokableCallRejected ==
    (Finished /\ Wire) =>
        \A k \in 1..Len(RequestLines) :
            (UnknownMethod(k) \/ ArityMismatch(k)) =>
                /\ AnswerIn("reject", IdOfPush(k)) # {}
                /\ AnswerIn("resolve", IdOfPush(k)) = {}

\* C15: a pushed call that targets its own identifier is settled as
\* rejected (cyclic dependency): it is not resolved and not left unanswered.
SelfTarget(k) == IsCallPush(k) /\ PushedExpr(RequestLines[k]).v[2] = Num(IdOfPush(k))
C15_SelfReferenceRejected ==
    (Finished /\ Wire) =>
        \A k \in 1..Len(RequestLines) :
            SelfTarget(k) =>
                /\ AnswerIn("reject", IdOfPush(k)) # {}
                /\ AnswerIn("resolve", IdOfPush(k)) = {}

\* C16: every 200 response of the handler carries the three CORS headers
\* do_OPTIONS sends, on the add-result, the default and the legacy path.
C16_EveryResponseHasCors ==
    pc = "done" => OptionsHeaders \subseteq headers

(***************************************************************************)
(* The analyzer: test modules and the exit status.                         *)
(***************************************************************************)
\* the test modules of a file by their braces: a module starts at a line
\* with #[cfg(test)] or mod tests and ends at the line whose closing brace
\* brings the depth of its braces back to 0
CountOf(line, c) == Cardinality({k \in 1..Len(line) : line[k] = c})
StartsTestModule(line) == Contains(line, <<"#", "[", "c", "f", "g", "(", "t", "e", "s", "t", ")", "]">>) \/ Contains(line, <<"m", "o", "d", " ", "t", "e", "s", "t", "s">>)
\* inside: line k is of a test module; more: the module goes on after it
RECURSIVE Track(_, _)
Track(ls, k) ==
    IF k = 0 THEN [inside |-> FALSE, more |-> FALSE, opened |-> FALSE, depth |-> 0]
    ELSE LET p == Track(ls, k - 1)
             inside == p.more \/ StartsTestModule(ls[k])
             d == (IF p.more THEN p.depth ELSE 0)
                     + CountOf(ls[k], "{") - CountOf(ls[k], "}")
             op == (p.more /\ p.opened) \/ CountOf(ls[k], "{") > 0
             leaves == (op /\ d = 0) \/ d < 0
         IN [inside |-> inside, more |-> inside /\ ~leaves,
             opened |-> inside /\ ~leaves /\ op, depth |-> d]

\* C17: no line inside a test module (from its #[cfg(test)] or mod tests
\* line to the closing brace of the module itself, the lines after the
\* closing brace of a nested block included) is recorded in any category.
C17_TestModuleLinesNotRecorded ==
    apc \in {"scan", "stored"} =>
        \A c \in Categories : \A k \in 1..Len(uncovered_items[c]) :
            ~Track(rs_lines, uncovered_items[c][k].line).inside

\* C18: main returns 1 exactly when it printed WARNING or CRITICAL, and 0
\* exactly when it printed that coverage is improving.
C18_StatusFollowsVerdict ==
    mpc = "exit" =>
        /\ status = 1 <=> message \in {"WARNING", "CRITICAL"}
        /\ status = 0 <=> message = "Coverage is improving"
====
